---- MODULE Spec2Model ----
(***************************************************************************)
(* Model of Buscador.cpp: the mail store (correosPorID), the sender map    *)
(* (correosPorRemitente), the sparse term matrix (matrizDispersa) and the  *)
(* date tree (ArbolCorreos), with the operations that build and read them. *)
(*                                                                         *)
(* A std::string is a sequence of character codes (ASCII): "A" is <<65>>,  *)
(* "a" is <<97>>, "1" is <<49>>, " " is <<32>>, "-" is <<45>>.             *)
(* An unordered_map is a function; its keys are its DOMAIN.                *)
(* The tree's nodes live in a heap `nodos` (a sequence, in allocation      *)
(* order); a NodoCorreo* is an index into it and nullptr is 0.             *)
(***************************************************************************)
EXTENDS Integers, Sequences, FiniteSets, TLC

VARIABLES nextID, correosPorRemitente, matrizDispersa, correosPorID, nodos, raiz, paso

vars == <<nextID, correosPorRemitente, matrizDispersa, correosPorID, nodos, raiz, paso>>

indices == <<correosPorRemitente, matrizDispersa, correosPorID, nodos, raiz>>

\* Largest number of records created in one run (caps the counter nextID).
MaxCorreos == 3

(***************************************************************************)
(* Strings                                                                 *)
(***************************************************************************)

\* std::string operator< : lexicographic comparison of the character codes.
MenorQue(a, b) ==
    \E i \in 1..Len(b) :
        /\ i <= Len(a) + 1
        /\ \A j \in 1..(i - 1) : a[j] = b[j]
        /\ (i = Len(a) + 1 \/ a[i] < b[i])

\* tolower in the C locale.
tolower(ch) == IF ch \in 65..90 THEN ch + 32 ELSE ch

\* isalnum in the C locale.
isalnum(ch) == ch \in (48..57) \cup (65..90) \cup (97..122)

\* The lambda aMinusculas of crearCorreo, and the loop of buscarPalabraANSI.
aMinusculas(s) == [i \in 1..Len(s) |-> tolower(s[i])]

(***************************************************************************)
(* unordered_map                                                           *)
(***************************************************************************)

EmptyMap == <<>>

count(m, k) == k \in DOMAIN m

\* m[k] = v : creates the key when it is absent.
Asignar(m, k, v) == [x \in (DOMAIN m) \cup {k} |-> IF x = k THEN v ELSE m[x]]

\* The map after evaluating m[k]: operator[] inserts a default value for an absent key.
Indexar(m, k, def) == IF k \in DOMAIN m THEN m ELSE Asignar(m, k, def)

\* A value-initialised Correo, the default operator[] would insert.
CorreoVacio == [id |-> 0, remitente |-> <<>>, asunto |-> <<>>, cuerpo |-> <<>>, fecha |-> <<>>]

(***************************************************************************)
(* ArbolCorreos                                                            *)
(***************************************************************************)

NodoCorreo(c) == [data |-> c, izq |-> 0, der |-> 0]

\* Line 90 with <= for <: an equal date goes left.
VaIzquierdaIgual(c, n) == ~MenorQue(n.data.fecha, c.fecha)

\* Line 90 with > for <: the two sides swapped.
VaIzquierdaAlReves(c, n) == MenorQue(n.data.fecha, c.fecha)

\* The test of line 90: the new record goes to the left subtree.
VaIzquierda(c, n) == MenorQue(c.fecha, n.data.fecha)

\* insertar(nodo, c) on heap h: the heap after the call and the pointer it returns.
RECURSIVE insertar(_, _, _)
insertar(h, nodo, c) ==
    IF nodo = 0
    THEN [h |-> Append(h, NodoCorreo(c)), ptr |-> Len(h) + 1]
    ELSE IF VaIzquierda(c, h[nodo])
         THEN LET r == insertar(h, h[nodo].izq, c)
              IN  [h |-> [r.h EXCEPT ![nodo].izq = r.ptr], ptr |-> nodo]
         ELSE LET r == insertar(h, h[nodo].der, c)
              IN  [h |-> [r.h EXCEPT ![nodo].der = r.ptr], ptr |-> nodo]

\* inOrden(nodo, lista): lista after the traversal of the subtree at nodo.
RECURSIVE inOrden(_, _, _)
inOrden(h, nodo, lista) ==
    IF nodo = 0
    THEN lista
    ELSE inOrden(h, h[nodo].der, Append(inOrden(h, h[nodo].izq, lista), h[nodo].data))

obtenerOrdenados == inOrden(nodos, raiz, <<>>)

\* The nodes of the subtree at nodo.
RECURSIVE subarbol(_, _)
subarbol(h, nodo) ==
    IF nodo = 0
    THEN {}
    ELSE {nodo} \cup subarbol(h, h[nodo].izq) \cup subarbol(h, h[nodo].der)

(***************************************************************************)
(* crearCorreo                                                             *)
(***************************************************************************)

\* The scan without lines 166-167: the word that ends the text is dropped.
RECURSIVE escanearSinFinal(_, _, _, _)
escanearSinFinal(texto, i, palabra, fila) ==
    IF i > Len(texto)
    THEN fila
    ELSE IF isalnum(texto[i])
         THEN escanearSinFinal(texto, i + 1, Append(palabra, texto[i]), fila)
         ELSE IF palabra # <<>>
              THEN escanearSinFinal(texto, i + 1, <<>>, [x \in (DOMAIN fila) \cup {palabra} |-> 1])
              ELSE escanearSinFinal(texto, i + 1, <<>>, fila)

\* The scan of lines 156-167 from position i on: fila is the row
\* matrizDispersa[c.id] built so far (EmptyMap while no word was stored),
\* palabra the word being accumulated.
RECURSIVE escanear(_, _, _, _)
escanear(texto, i, palabra, fila) ==
    IF i > Len(texto)
    THEN IF palabra # <<>> THEN Asignar(fila, palabra, 1) ELSE fila
    ELSE IF isalnum(texto[i])
         THEN escanear(texto, i + 1, Append(palabra, texto[i]), fila)
         ELSE IF palabra # <<>>
              THEN escanear(texto, i + 1, <<>>, Asignar(fila, palabra, 1))
              ELSE escanear(texto, i + 1, <<>>, fila)

\* The text crearCorreo scans.
textoDe(asu, cue) == aMinusculas(asu \o <<32>> \o cue)

\* The row crearCorreo writes for a record; no row is created without a word.
filaDe(asu, cue) == escanear(textoDe(asu, cue), 1, <<>>, EmptyMap)

\* Line 140 with a counter that is not static: every record gets identifier 1.
nuevoCorreoSinStatic(rem, asu, cue, fecha) ==
    [id |-> 1, remitente |-> rem, asunto |-> asu, cuerpo |-> cue, fecha |-> fecha]

\* The record of line 140.
nuevoCorreo(rem, asu, cue, fecha) ==
    [id |-> nextID, remitente |-> rem, asunto |-> asu, cuerpo |-> cue, fecha |-> fecha]

\* Line 143 with the sender lower-cased before it is used as the key.
remitenteTrasCrearMinusculas(c) ==
    [x \in (DOMAIN correosPorRemitente) \cup {[i \in 1..Len(c.remitente) |->
                IF c.remitente[i] \in 65..90 THEN c.remitente[i] + 32 ELSE c.remitente[i]]} |->
        IF x = [i \in 1..Len(c.remitente) |->
                IF c.remitente[i] \in 65..90 THEN c.remitente[i] + 32 ELSE c.remitente[i]]
        THEN (IF x \in DOMAIN correosPorRemitente THEN correosPorRemitente[x] ELSE <<>>) \o <<c>>
        ELSE correosPorRemitente[x]]

\* correosPorRemitente after line 143: the key is created on first use.
remitenteTrasCrear(c) ==
    [Indexar(correosPorRemitente, c.remitente, <<>>) EXCEPT ![c.remitente] = Append(@, c)]

\* correosPorID after line 144.
idTrasCrear(c) == Asignar(correosPorID, c.id, c)

\* Lines 161 and 167 keyed by nextID, already incremented, instead of c.id.
matrizTrasCrearNextID(c, fila) ==
    IF fila = <<>>
    THEN matrizDispersa
    ELSE [x \in (DOMAIN matrizDispersa) \cup {c.id + 1} |->
            IF x = c.id + 1 THEN fila ELSE matrizDispersa[x]]

\* matrizDispersa after lines 156-167: the row of c is created by its first word.
matrizTrasCrear(c, fila) ==
    IF fila = EmptyMap THEN matrizDispersa ELSE Asignar(matrizDispersa, c.id, fila)

\* crearCorreo: the effect on the counter and the three global maps.
crearCorreo(rem, asu, cue, fecha) ==
    LET c == nuevoCorreo(rem, asu, cue, fecha)
    IN  /\ nextID' = nextID + 1
        /\ correosPorRemitente' = remitenteTrasCrear(c)
        /\ correosPorID' = idTrasCrear(c)
        /\ matrizDispersa' = matrizTrasCrear(c, filaDe(asu, cue))

\* An insertion that drops a record whose fecha is already in the tree.
arbolInsertarSinRepetidos(c) ==
    IF \E n \in 1..Len(nodos) : nodos[n].data.fecha = c.fecha
    THEN UNCHANGED <<nodos, raiz>>
    ELSE LET r == insertar(nodos, raiz, c)
         IN  /\ nodos' = r.h
             /\ raiz' = r.ptr

\* ArbolCorreos::insertar(c): raiz = insertar(raiz, c).
arbolInsertar(c) ==
    LET r == insertar(nodos, raiz, c)
    IN  /\ nodos' = r.h
        /\ raiz' = r.ptr

(***************************************************************************)
(* Operations                                                              *)
(***************************************************************************)

Init ==
    /\ nextID = 1
    /\ correosPorRemitente = EmptyMap
    /\ matrizDispersa = EmptyMap
    /\ correosPorID = EmptyMap
    /\ nodos = <<>>
    /\ raiz = 0
    /\ paso = "inicio"

\* arbol.insertar(crearCorreo(rem, asu, cue, fecha)), as main does.
Ingestar(rem, asu, cue, fecha) ==
    /\ nextID <= MaxCorreos
    /\ crearCorreo(rem, asu, cue, fecha)
    /\ arbolInsertar(nuevoCorreo(rem, asu, cue, fecha))
    /\ paso' = "crear"

\* One iteration of the loop of cargarCorreosDesdeArchivo, on a line already
\* split into its four fields: a line with an empty first field is skipped.
CargarLinea(rem, asu, cue, fec) ==
    IF rem = <<>>
    THEN /\ paso' = "omitir"
         /\ UNCHANGED <<nextID, indices>>
    ELSE /\ nextID <= MaxCorreos
         /\ crearCorreo(rem, asu, cue, fec)
         /\ arbolInsertar(nuevoCorreo(rem, asu, cue, fec))
         /\ paso' = "cargar"

\* The tail without the count test: operator[] is evaluated for any id but 0.
abrirCorreoSinCount(m, id) ==
    IF id # 0
    THEN [x \in (DOMAIN m) \cup {id} |-> IF x \in DOMAIN m THEN m[x] ELSE CorreoVacio]
    ELSE m

\* The tail shared by the three screens: correosPorID after
\* `if (id != 0 && correosPorID.count(id)) verCorreo(correosPorID[id])`.
abrirCorreo(m, id) ==
    IF id # 0 /\ count(m, id) THEN Indexar(m, id, CorreoVacio) ELSE m

\* What that tail shows: <<c>> when it opens the record c, NotFound when it
\* opens none.
NotFound == <<>>

correoAbierto(id) ==
    IF id # 0 /\ count(correosPorID, id) THEN <<correosPorID[id]>> ELSE NotFound

\* verOrdenados: lists obtenerOrdenados, then opens the record id.
VerOrdenados(id) ==
    /\ correosPorID' = abrirCorreo(correosPorID, id)
    /\ paso' = "verOrdenados"
    /\ UNCHANGED <<nextID, correosPorRemitente, matrizDispersa, nodos, raiz>>

\* The list buscarRemitenteANSI shows for rem (none for an unknown sender).
listaRemitente(rem) ==
    IF count(correosPorRemitente, rem) THEN correosPorRemitente[rem] ELSE <<>>

\* Lines 264-270 without the count test: operator[] creates the typed sender.
remitenteTrasSinCount(rem) ==
    [x \in (DOMAIN correosPorRemitente) \cup {rem} |->
        IF x \in DOMAIN correosPorRemitente THEN correosPorRemitente[x] ELSE <<>>]

\* correosPorRemitente after lines 264-270 of buscarRemitenteANSI.
remitenteTras(rem) ==
    IF ~count(correosPorRemitente, rem)
    THEN correosPorRemitente
    ELSE Indexar(correosPorRemitente, rem, <<>>)

\* buscarRemitenteANSI: returns early for an unknown sender.
BuscarRemitente(rem, id) ==
    /\ correosPorRemitente' = remitenteTras(rem)
    /\ correosPorID' = IF ~count(correosPorRemitente, rem)
                       THEN correosPorID
                       ELSE abrirCorreo(correosPorID, id)
    /\ paso' = "buscarRemitente"
    /\ UNCHANGED <<nextID, matrizDispersa, nodos, raiz>>

\* The identifiers buscarPalabraANSI collects for the typed word (lines 302-309).
resultados(palabra) ==
    {f \in DOMAIN matrizDispersa : count(matrizDispersa[f], aMinusculas(palabra))}

\* correosPorID after the loop of lines 321-327, which indexes it by every result.
idTrasResultados(m, res) ==
    [x \in (DOMAIN m) \cup res |-> IF x \in DOMAIN m THEN m[x] ELSE CorreoVacio]

\* buscarPalabraANSI: returns early when nothing matches.
BuscarPalabra(palabra, id) ==
    /\ correosPorID' = IF resultados(palabra) = {}
                       THEN correosPorID
                       ELSE abrirCorreo(idTrasResultados(correosPorID, resultados(palabra)), id)
    /\ paso' = "buscarPalabra"
    /\ UNCHANGED <<nextID, correosPorRemitente, matrizDispersa, nodos, raiz>>

(***************************************************************************)
(* Inputs and specifications                                               *)
(***************************************************************************)

\* Typed identifiers.
IDs == 0..(MaxCorreos + 1)

\* The operations, over the given sets of senders, subjects, bodies, dates,
\* typed senders and typed words.
NextSobre(R, A, C, F, QR, QP) ==
    \/ \E rem \in R, asu \in A, cue \in C, fecha \in F : Ingestar(rem, asu, cue, fecha)
    \/ \E rem \in R \cup {<<>>}, asu \in A, cue \in C, fec \in F : CargarLinea(rem, asu, cue, fec)
    \/ \E id \in IDs : VerOrdenados(id)
    \/ \E rem \in QR, id \in IDs : BuscarRemitente(rem, id)
    \/ \E palabra \in QP, id \in IDs : BuscarPalabra(palabra, id)

\* Senders "", "A", "a"; dates "1", "2"; subject ""; bodies "", "A a1".
Remitentes == {<<>>, <<65>>, <<97>>}
Fechas == {<<49>>, <<50>>}
Asuntos == {<<>>}
Cuerpos == {<<>>, <<65, 32, 97, 49>>}
\* Typed senders "", "A", "a", "aA"; typed words "", "a", "A1", "1".
ConsultasRemitente == Remitentes \cup {<<97, 65>>}
Palabras == {<<>>, <<97>>, <<65, 49>>, <<49>>}

Next == NextSobre(Remitentes, Asuntos, Cuerpos, Fechas, ConsultasRemitente, Palabras)

Spec == Init /\ [][Next]_vars

\* Many dates: senders "A", "a"; dates "", "1", "12", "2"; subject "A"; body "".
RemitentesF == {<<65>>, <<97>>}
FechasF == {<<>>, <<49>>, <<49, 50>>, <<50>>}
AsuntosF == {<<65>>}
CuerposF == {<<>>}

NextFechas == NextSobre(RemitentesF, AsuntosF, CuerposF, FechasF, RemitentesF, {<<97>>, <<49>>})

SpecFechas == Init /\ [][NextFechas]_vars

\* Many texts: sender "A"; date "1"; subjects "", "A", "a1"; bodies "",
\* "1-A", "aa".
RemitentesT == {<<65>>}
FechasT == {<<49>>}
AsuntosT == {<<>>, <<65>>, <<97, 49>>}
CuerposT == {<<>>, <<49, 45, 65>>, <<97, 97>>}
\* Typed words "", "a", "A", "a1", "A1", "1", "aa", "1-a", "-", "a a".
PalabrasT ==
    {<<>>, <<97>>, <<65>>, <<97, 49>>, <<65, 49>>, <<49>>, <<97, 97>>,
     <<49, 45, 97>>, <<45>>, <<97, 32, 97>>}

NextTexto == NextSobre(RemitentesT, AsuntosT, CuerposT, FechasT, {<<65>>, <<97>>}, PalabrasT)

SpecTexto == Init /\ [][NextTexto]_vars

(***************************************************************************)
(* Properties                                                              *)
(***************************************************************************)

\* The records created so far, in creation order.
creados == [i \in 1..(nextID - 1) |-> correosPorID[i]]

\* C1: obtenerOrdenados yields every ingested record once, in non-decreasing
\* lexicographic order of fecha, and records of equal fecha in the order in
\* which they were ingested.
C1_OrdenadosPorFecha ==
    LET l == obtenerOrdenados
    IN  /\ Len(l) = Len(creados)
        /\ \A k \in 1..Len(creados) : \E i \in 1..Len(l) : l[i] = creados[k]
        /\ \A i, j \in 1..Len(l) :
               i < j => /\ ~MenorQue(l[j].fecha, l[i].fecha)
                        /\ (l[i].fecha = l[j].fecha => l[i].id < l[j].id)

\* Three records listed as "12" (second), "12" (third), "2" (first).
C1_Witness ==
    LET l == obtenerOrdenados
    IN  /\ paso = "verOrdenados"
        /\ Len(l) = 3
        /\ l[1].fecha = <<49, 50>> /\ l[1].id = 2
        /\ l[2].fecha = <<49, 50>> /\ l[2].id = 3
        /\ l[3].fecha = <<50>> /\ l[3].id = 1

\* C9 as stated: no two nodes hold the same fecha, every fecha in a left
\* subtree is strictly less than the node's and every fecha in a right subtree
\* strictly greater.
C9_Original ==
    \A n \in subarbol(nodos, raiz) :
        /\ \A m \in subarbol(nodos, raiz) : nodos[m].data.fecha = nodos[n].data.fecha => m = n
        /\ \A m \in subarbol(nodos, nodos[n].izq) :
               MenorQue(nodos[m].data.fecha, nodos[n].data.fecha)
        /\ \A m \in subarbol(nodos, nodos[n].der) :
               MenorQue(nodos[n].data.fecha, nodos[m].data.fecha)

\* C9 amended: every record has a node of its own; every fecha in a left
\* subtree is strictly less than the node's, every fecha in a right subtree is
\* greater or equal, and a record of equal fecha inserted later lies in the
\* right subtree of the earlier one.
C9_ArbolOrdenado ==
    /\ subarbol(nodos, raiz) = 1..(nextID - 1)
    /\ \A n \in subarbol(nodos, raiz) :
        /\ \A m \in subarbol(nodos, nodos[n].izq) :
               MenorQue(nodos[m].data.fecha, nodos[n].data.fecha)
        /\ \A m \in subarbol(nodos, nodos[n].der) :
               ~MenorQue(nodos[m].data.fecha, nodos[n].data.fecha)
        /\ \A m \in subarbol(nodos, raiz) :
               (n < m /\ nodos[m].data.fecha = nodos[n].data.fecha)
                   => m \in subarbol(nodos, nodos[n].der)

\* A root with a left child, and a right child holding the root's own fecha.
C9_Witness ==
    /\ raiz # 0
    /\ nodos[raiz].izq # 0
    /\ nodos[raiz].der # 0
    /\ nodos[nodos[raiz].der].data.fecha = nodos[raiz].data.fecha

\* The tokens of a text: its maximal runs of alphanumeric characters.
Tokens(x) ==
    {SubSeq(x, i, j) : <<i, j>> \in
        {ij \in (1..Len(x)) \X (1..Len(x)) :
            /\ ij[1] <= ij[2]
            /\ \A k \in ij[1]..ij[2] : isalnum(x[k])
            /\ (ij[1] = 1 \/ ~isalnum(x[ij[1] - 1]))
            /\ (ij[2] = Len(x) \/ ~isalnum(x[ij[2] + 1]))}}

\* The lower-cased asunto + " " + cuerpo of a stored record.
textoGuardado(c) == aMinusculas(c.asunto \o <<32>> \o c.cuerpo)

\* C2: for every typed word, buscarPalabraANSI collects a record if and only
\* if the lower-cased word is one of the tokens of the record's lower-cased
\* asunto + " " + cuerpo.
C2_PorPalabra ==
    \A palabra \in PalabrasT :
        resultados(palabra) =
            {id \in DOMAIN correosPorID :
                aMinusculas(palabra) \in Tokens(textoGuardado(correosPorID[id]))}

\* After a search by word: "A1" finds the first record and not the second,
\* which holds the token "aa" and is found neither by its prefix "a" nor by
\* "a a", while "1-a", the body of the third record, finds nothing.
C2_Witness ==
    /\ paso = "buscarPalabra"
    /\ nextID = 4
    /\ resultados(<<65, 49>>) = {1}
    /\ resultados(<<97, 97>>) = {2}
    /\ 2 \notin resultados(<<97>>)
    /\ correosPorID[3].cuerpo = <<49, 45, 65>>
    /\ resultados(<<49>>) = {3}
    /\ resultados(<<49, 45, 97>>) = {}
    /\ resultados(<<97, 32, 97>>) = {}

\* The records of a sequence whose sender is s, in the order of the sequence.
RECURSIVE deRemitente(_, _)
deRemitente(cs, s) ==
    IF cs = <<>>
    THEN <<>>
    ELSE IF cs[1].remitente = s
         THEN <<cs[1]>> \o deRemitente(Tail(cs), s)
         ELSE deRemitente(Tail(cs), s)

\* C3: for every typed sender, buscarRemitenteANSI lists exactly the records
\* created with that very sender, each once, in creation order, and nothing
\* for a sender no record has.
C3_PorRemitente ==
    \A s \in ConsultasRemitente : listaRemitente(s) = deRemitente(creados, s)

\* After a search by sender: "A" has the first and third records, "a" the
\* second, and "aA" none.
C3_Witness ==
    /\ paso = "buscarRemitente"
    /\ nextID = 4
    /\ listaRemitente(<<65>>) = <<correosPorID[1], correosPorID[3]>>
    /\ listaRemitente(<<97>>) = <<correosPorID[2]>>
    /\ listaRemitente(<<97, 65>>) = <<>>

\* C6: the records are numbered 1, 2, 3, ... in creation order: the k-th
\* record created (the k-th node allocated) has identifier k, the store holds
\* one record under each identifier given out, and the counter is the next one.
C6_IDsCrecientes ==
    /\ Len(nodos) = nextID - 1
    /\ DOMAIN correosPorID = 1..(nextID - 1)
    /\ \A k \in 1..Len(nodos) : nodos[k].data.id = k /\ correosPorID[k].id = k

\* Three records were created.
C6_Witness ==
    /\ Len(nodos) = 3
    /\ nodos[3].data.id = 3
    /\ paso \in {"crear", "cargar"}

\* The identifiers held by the tree, by the sender map and by the term matrix.
idsArbol == {nodos[n].data.id : n \in subarbol(nodos, raiz)}
idsRemitente ==
    UNION {{correosPorRemitente[s][k].id : k \in 1..Len(correosPorRemitente[s])} :
           s \in DOMAIN correosPorRemitente}
idsMatriz == DOMAIN matrizDispersa

\* C7: every stored identifier is in the tree exactly once and in the sender
\* map exactly once, under its record's sender, and the tree, the sender map
\* and the term matrix hold no identifier that is not stored.
C7_IndicesCompletos ==
    /\ \A id \in DOMAIN correosPorID :
        /\ Cardinality({n \in subarbol(nodos, raiz) : nodos[n].data.id = id}) = 1
        /\ Cardinality({i \in 1..Len(obtenerOrdenados) : obtenerOrdenados[i].id = id}) = 1
        /\ Cardinality({sk \in UNION {{<<s, k>> : k \in 1..Len(correosPorRemitente[s])} :
                                      s \in DOMAIN correosPorRemitente} :
                            correosPorRemitente[sk[1]][sk[2]].id = id}) = 1
        /\ \E k \in 1..Len(listaRemitente(correosPorID[id].remitente)) :
               listaRemitente(correosPorID[id].remitente)[k].id = id
    /\ idsArbol \subseteq DOMAIN correosPorID
    /\ idsRemitente \subseteq DOMAIN correosPorID
    /\ idsMatriz \subseteq DOMAIN correosPorID

\* Three records, two of one fecha and one sender, one of them without words.
C7_Witness ==
    /\ nextID = 4
    /\ paso \in {"crear", "cargar"}
    /\ correosPorID[1].fecha = correosPorID[3].fecha
    /\ correosPorID[1].remitente = correosPorID[3].remitente
    /\ idsMatriz = {1, 2}

\* C10: every copy of a record in a tree node or in a sender list equals the
\* record stored under its identifier, and every row of the term matrix
\* belongs to a stored record and holds exactly the tokens of its text.
C10_CopiasIguales ==
    /\ \A n \in subarbol(nodos, raiz) :
        /\ nodos[n].data.id \in DOMAIN correosPorID
        /\ nodos[n].data = correosPorID[nodos[n].data.id]
    /\ \A s \in DOMAIN correosPorRemitente :
        \A k \in 1..Len(correosPorRemitente[s]) :
            /\ correosPorRemitente[s][k].id \in DOMAIN correosPorID
            /\ correosPorRemitente[s][k] = correosPorID[correosPorRemitente[s][k].id]
    /\ \A f \in DOMAIN matrizDispersa :
        /\ f \in DOMAIN correosPorID
        /\ DOMAIN matrizDispersa[f] = Tokens(textoGuardado(correosPorID[f]))
        /\ \A w \in DOMAIN matrizDispersa[f] : matrizDispersa[f][w] = 1

\* Three records in tree and sender map; the second and third have rows.
C10_Witness ==
    /\ nextID = 4
    /\ Cardinality(subarbol(nodos, raiz)) = 3
    /\ DOMAIN matrizDispersa = {2, 3}
    /\ DOMAIN matrizDispersa[2] = {<<97>>, <<97, 49>>}
    /\ Cardinality(DOMAIN correosPorRemitente) = 2

\* The values of paso after a step of one of the three screens, and after a
\* step that created a record.
Lecturas == {"verOrdenados", "buscarRemitente", "buscarPalabra"}
Creaciones == {"crear", "cargar"}

\* C4: creating a record with an empty sender consumes no identifier and
\* leaves the store, the tree, the sender map and the term matrix as they were.
C4_RemitenteVacioRechazado ==
    [][\A asu \in Asuntos, cue \in Cuerpos, fecha \in Fechas :
           Ingestar(<<>>, asu, cue, fecha) => UNCHANGED <<nextID, indices>>]_vars

\* C5: the record a creation returns (the one handed to the tree, in the node
\* allocated last) is found under its identifier, equal in all its fields;
\* every stored record stays as it is in every later step; an identifier that
\* was never given out is not found, and a screen that looks up an identifier
\* adds no entry to the store.
C5_BuscarPorID ==
    /\ [](\A id \in IDs : id \notin 1..(nextID - 1) => correoAbierto(id) = NotFound)
    /\ [][/\ (paso' \in Creaciones /\ nextID' # nextID)
                => /\ nodos'[Len(nodos')].data.id = nextID
                   /\ nextID \in DOMAIN correosPorID'
                   /\ correosPorID'[nextID] = nodos'[Len(nodos')].data
          /\ \A id \in DOMAIN correosPorID :
                id \in DOMAIN correosPorID' /\ correosPorID'[id] = correosPorID[id]
          /\ paso' \in Lecturas => DOMAIN correosPorID' = DOMAIN correosPorID]_vars

\* After a screen asked for identifiers with two records stored: 1 and 2 are
\* found, 0 and 3 are not.
C5_Witness ==
    /\ paso = "verOrdenados"
    /\ nextID = 3
    /\ correoAbierto(1) = <<correosPorID[1]>> /\ correoAbierto(1)[1].id = 1
    /\ correoAbierto(2)[1].fecha = <<50>>
    /\ correoAbierto(0) = NotFound
    /\ correoAbierto(3) = NotFound

\* C8: a step of verOrdenados, buscarRemitenteANSI or buscarPalabraANSI, for
\* any typed sender, word and identifier, changes none of the counter, the
\* store, the tree, the sender map and the term matrix.
C8_LecturasSinEfecto == [][paso' \in Lecturas => UNCHANGED <<nextID, indices>>]_vars

\* After a search by sender with records stored, while the typed sender "aA",
\* the typed word "1" and the typed identifier 3 are unknown.
C8_Witness ==
    /\ paso = "buscarRemitente"
    /\ nextID = 3
    /\ ~count(correosPorRemitente, <<97, 65>>)
    /\ resultados(<<49>>) = {}
    /\ resultados(<<97>>) # {}
    /\ ~count(correosPorID, 3)

====
